---- MODULE Spec2Model ----
(***************************************************************************)
(* A model of the JSON scanner and recursive-descent parser of src/main.rs *)
(* (tokenize, Parser, parse_json_str).                                     *)
(*                                                                         *)
(* A text is a sequence of characters, a character is a one-character      *)
(* string, and a character index is the 0-based index that                 *)
(* input.chars().enumerate() yields.  The scanner takes one step per       *)
(* iteration of its outer loop, the parser one step per code segment       *)
(* between two calls of advance().                                         *)
(***************************************************************************)
EXTENDS Integers, Sequences, FiniteSets, TLC

VARIABLES
    input,      \* the &str handed to parse_json_str / tokenize
    pc,         \* "tokenize" | "parse" | "done": where parse_json_str is
    chars,      \* tokenize: number of characters the iterator has yielded
    tokens,     \* tokenize: its local Vec<Token>
    lexed,      \* tokenize's return value (None until it returns)
    parser,     \* the Parser struct: [tokens, position] (None before new)
    stack,      \* the parse_object / parse_array frames under way
    ret,        \* the value a parse_value call has just returned (or None)
    result,     \* the value parse_json_str / parse_json returned (or None)
    dispatched, \* history: the indices the scanner's outer loop dispatched on
    origin      \* harness: how the caller built the input

vars == <<input, pc, chars, tokens, lexed, parser, stack, ret, result,
          dispatched, origin>>

None == [tag |-> "None"]

----------------------------------------------------------------------------
(* Characters                                                              *)

\* Mutant: the whitespace arm without the carriage return.
WhitespaceNoReturn == {" ", "\n", "\t"}

\* The whitespace characters of the model's alphabet (char::is_whitespace).
Whitespace == {" ", "\n", "\t", "\r"}

\* The alphabetic characters of the model's alphabet (char::is_alphabetic).
Alphabetic == {"a", "b", "e", "E", "f", "l", "n", "r", "s", "t", "u"}

AsciiDigit == {"0", "1", "2", "3", "4", "5", "6", "7", "8", "9"}

NumberChars == AsciiDigit \cup {".", "e", "E", "+", "-"}

----------------------------------------------------------------------------
(* Tokens                                                                  *)

Tok(k) == [k |-> k, s |-> <<>>]
StringTok(s) == [k |-> "String", s |-> s]
NumberTok(s) == [k |-> "Number", s |-> s]

PunctToken(ch) ==
    CASE ch = "{" -> Tok("LBrace")
      [] ch = "}" -> Tok("RBrace")
      [] ch = "[" -> Tok("LBracket")
      [] ch = "]" -> Tok("RBracket")
      [] ch = ":" -> Tok("Colon")
      [] ch = "," -> Tok("Comma")

Punct == {"{", "}", "[", "]", ":", ","}

----------------------------------------------------------------------------
(* Errors and results                                                      *)

InvalidToken(ch, idx) == [e |-> "InvalidToken", ch |-> ch, idx |-> idx]
UnterminatedString(idx) == [e |-> "UnterminatedString", idx |-> idx]
UnexpectedEndOfTokens == [e |-> "UnexpectedEndOfTokens"]
UnexpectedToken(t) == [e |-> "UnexpectedToken", token |-> t]
InvalidNumber(s) == [e |-> "InvalidNumber", s |-> s]

Ok(v) == [tag |-> "Ok", v |-> v]
Err(e) == [tag |-> "Err", e |-> e]

----------------------------------------------------------------------------
(* The scanner's inner loops                                               *)

\* Mutant: the escape table without its 't' entry.
UnescapeNoTab(c) ==
    CASE c = "\"" -> "\""
      [] c = "\\" -> "\\"
      [] c = "n" -> "\n"
      [] c = "r" -> "\r"
      [] OTHER -> c

\* The escape table of the string arm.
Unescape(c) ==
    CASE c = "\"" -> "\""
      [] c = "\\" -> "\\"
      [] c = "n" -> "\n"
      [] c = "t" -> "\t"
      [] c = "r" -> "\r"
      [] OTHER -> c

\* The string arm's loop from iterator position i with string_content acc:
\* the content, whether the closing quote was found, and the position after.
RECURSIVE ScanString(_, _, _)
ScanString(text, i, acc) ==
    IF i >= Len(text)
    THEN [terminated |-> FALSE, content |-> acc, chars |-> i]
    ELSE LET c == text[i + 1] IN
         IF c = "\""
         THEN [terminated |-> TRUE, content |-> acc, chars |-> i + 1]
         ELSE IF c = "\\"
         THEN IF i + 1 >= Len(text)
              THEN [terminated |-> FALSE, content |-> acc, chars |-> i + 1]
              ELSE ScanString(text, i + 2, Append(acc, Unescape(text[i + 2])))
         ELSE ScanString(text, i + 1, Append(acc, c))

\* Mutant: an identifier run that also takes digits.
RECURSIVE ScanIdentAlnum(_, _, _)
ScanIdentAlnum(text, i, ident) ==
    IF i < Len(text) /\ text[i + 1] \in Alphabetic \cup AsciiDigit
    THEN ScanIdentAlnum(text, i + 1, Append(ident, text[i + 1]))
    ELSE [ident |-> ident, chars |-> i]

\* The identifier arm's peek loop.
RECURSIVE ScanIdent(_, _, _)
ScanIdent(text, i, ident) ==
    IF i < Len(text) /\ text[i + 1] \in Alphabetic
    THEN ScanIdent(text, i + 1, Append(ident, text[i + 1]))
    ELSE [ident |-> ident, chars |-> i]

\* Mutant: a number run that stops at a sign.
RECURSIVE ScanNumberNoSign(_, _, _)
ScanNumberNoSign(text, i, number_str) ==
    IF i < Len(text) /\ text[i + 1] \in AsciiDigit \cup {".", "e", "E"}
    THEN ScanNumberNoSign(text, i + 1, Append(number_str, text[i + 1]))
    ELSE [number_str |-> number_str, chars |-> i]

\* The number arm's peek loop.
RECURSIVE ScanNumber(_, _, _)
ScanNumber(text, i, number_str) ==
    IF i < Len(text) /\ text[i + 1] \in NumberChars
    THEN ScanNumber(text, i + 1, Append(number_str, text[i + 1]))
    ELSE [number_str |-> number_str, chars |-> i]

Keyword(ident) ==
    CASE ident = <<"t", "r", "u", "e">> -> Tok("True")
      [] ident = <<"f", "a", "l", "s", "e">> -> Tok("False")
      [] ident = <<"n", "u", "l", "l">> -> Tok("Null")
      [] OTHER -> None

----------------------------------------------------------------------------
(* JsonValue, and str::parse::<f64>                                        *)

JNull == [t |-> "Null"]
JBool(b) == [t |-> "Bool", v |-> b]
JNumber(n) == [t |-> "Number", v |-> n]
JString(s) == [t |-> "String", v |-> s]
JArray(items) == [t |-> "Array", v |-> items]
JObject(map) == [t |-> "Object", v |-> map]

EmptyMap == [k \in {} |-> JNull]

\* Mutant: an insert that keeps the key's earlier value.
MapInsertKeepFirst(map, key, value) ==
    [k \in DOMAIN map \cup {key} |-> IF k \in DOMAIN map THEN map[k] ELSE value]

\* HashMap::insert: the key's earlier value, if any, is replaced.
MapInsert(map, key, value) ==
    [k \in DOMAIN map \cup {key} |-> IF k = key THEN value ELSE map[k]]

DigitVal(c) ==
    CASE c = "0" -> 0 [] c = "1" -> 1 [] c = "2" -> 2 [] c = "3" -> 3
      [] c = "4" -> 4 [] c = "5" -> 5 [] c = "6" -> 6 [] c = "7" -> 7
      [] c = "8" -> 8 [] c = "9" -> 9

\* The 1-based index after the run of digits of s that starts at index i.
RECURSIVE DigitsEnd(_, _)
DigitsEnd(s, i) ==
    IF i <= Len(s) /\ s[i] \in AsciiDigit THEN DigitsEnd(s, i + 1) ELSE i

\* The decimal value of the digits s[i .. j-1], continuing from acc.
RECURSIVE DigitsValue(_, _, _, _)
DigitsValue(s, i, j, acc) ==
    IF i >= j THEN acc ELSE DigitsValue(s, i + 1, j, 10 * acc + DigitVal(s[i]))

\* A finite double as <<m, e>>, meaning m * 10^e, with m not a multiple of
\* 10 unless the value is zero (<<0, 0>>, which is both 0.0 and -0.0: they
\* compare equal).  Exact, as the conversion is, for the short texts of the
\* model (under 16 significant digits, exponents far from the f64 range).
RECURSIVE Normalize(_, _)
Normalize(m, e) ==
    IF m = 0 THEN <<0, 0>>
    ELSE IF m % 10 = 0 THEN Normalize(m \div 10, e + 1)
    ELSE <<m, e>>

\* num_str.parse::<f64>(): the grammar of <f64 as FromStr>,
\*   Sign? ( Digit+ | Digit+ '.' Digit* | Digit* '.' Digit+ ) Exp?
\*   Exp ::= ('e' | 'E') Sign? Digit+
\* ('inf', 'infinity' and 'nan' cannot come out of the scanner's number run
\* and are not modelled).  [ok, v]: whether the text converts, and to what.
ParseF64(s) ==
    LET n == Len(s)
        signed == n >= 1 /\ s[1] \in {"+", "-"}
        negative == n >= 1 /\ s[1] = "-"
        p1 == IF signed THEN 2 ELSE 1
        intEnd == DigitsEnd(s, p1)
        dot == intEnd <= n /\ s[intEnd] = "."
        fracStart == IF dot THEN intEnd + 1 ELSE intEnd
        fracEnd == IF dot THEN DigitsEnd(s, fracStart) ELSE intEnd
        nDigits == (intEnd - p1) + (fracEnd - fracStart)
        hasExp == fracEnd <= n /\ s[fracEnd] \in {"e", "E"}
        expSigned == hasExp /\ fracEnd + 1 <= n /\ s[fracEnd + 1] \in {"+", "-"}
        expNeg == expSigned /\ s[fracEnd + 1] = "-"
        expStart == IF expSigned THEN fracEnd + 2 ELSE fracEnd + 1
        expEnd == IF hasExp THEN DigitsEnd(s, expStart) ELSE fracEnd
        expOk == ~hasExp \/ expEnd > expStart
        mant == DigitsValue(s, fracStart, fracEnd,
                            DigitsValue(s, p1, intEnd, 0))
        expAbs == IF hasExp THEN DigitsValue(s, expStart, expEnd, 0) ELSE 0
        exp10 == (IF expNeg THEN -expAbs ELSE expAbs) - (fracEnd - fracStart)
    IN  IF nDigits > 0 /\ expOk /\ expEnd = n + 1
        THEN [ok |-> TRUE,
              v |-> Normalize(IF negative THEN -mant ELSE mant, exp10)]
        ELSE [ok |-> FALSE, v |-> <<0, 0>>]

----------------------------------------------------------------------------
(* tokenize: one step per iteration of the outer loop                      *)

AtChar == pc = "tokenize" /\ chars < Len(input)
idx == chars
ch == input[chars + 1]

ParserIdle == UNCHANGED <<parser, stack, ret>>

\* An arm that pushes token t and leaves the iterator at position next.
Emit(t, next) ==
    /\ tokens' = Append(tokens, t)
    /\ chars' = next
    /\ dispatched' = dispatched \cup {idx}
    /\ UNCHANGED <<input, pc, lexed, result, origin>>
    /\ ParserIdle

\* Mutant: a scanner that, on a fault, returns the tokens it has so far.
LexFailPartial(e) ==
    /\ lexed' = Ok(tokens)
    /\ tokens' = <<>>
    /\ pc' = "tokenized"
    /\ dispatched' = dispatched \cup {idx}
    /\ UNCHANGED <<input, chars, result, origin>>
    /\ UNCHANGED <<parser, stack, ret>>

\* return Err(e): the local token vector is dropped with the frame.
LexFail(e) ==
    /\ lexed' = Err(e)
    /\ tokens' = <<>>
    /\ pc' = "tokenized"
    /\ dispatched' = dispatched \cup {idx}
    /\ UNCHANGED <<input, chars, result, origin>>
    /\ ParserIdle

LexWhitespace ==
    /\ AtChar
    /\ ch \in Whitespace
    /\ chars' = chars + 1
    /\ dispatched' = dispatched \cup {idx}
    /\ UNCHANGED <<input, pc, tokens, lexed, result, origin>>
    /\ ParserIdle

LexPunct ==
    /\ AtChar
    /\ ch \in Punct
    /\ Emit(PunctToken(ch), chars + 1)

\* Mutant: UnterminatedString carrying the index where the input ended.
LexStringEndIndex ==
    /\ AtChar
    /\ ch = "\""
    /\ LET r == ScanString(input, chars + 1, <<>>) IN
       IF r.terminated
       THEN Emit(StringTok(r.content), r.chars)
       ELSE LexFail(UnterminatedString(r.chars))


LexString ==
    /\ AtChar
    /\ ch = "\""
    /\ LET r == ScanString(input, chars + 1, <<>>) IN
       IF r.terminated
       THEN Emit(StringTok(r.content), r.chars)
       ELSE LexFail(UnterminatedString(idx))

LexIdent ==
    /\ AtChar
    /\ ch \notin Whitespace \cup Punct \cup {"\""}
    /\ ch \in Alphabetic
    /\ LET r == ScanIdent(input, chars + 1, <<ch>>) IN
       IF Keyword(r.ident) # None
       THEN Emit(Keyword(r.ident), r.chars)
       ELSE LexFail(InvalidToken(ch, idx))

LexNumber ==
    /\ AtChar
    /\ ch \notin Whitespace \cup Punct \cup {"\""} \cup Alphabetic
    /\ ch \in AsciiDigit \/ ch = "-"
    /\ LET r == ScanNumber(input, chars + 1, <<ch>>) IN
       Emit(NumberTok(r.number_str), r.chars)

LexInvalid ==
    /\ AtChar
    /\ ch \notin Whitespace \cup Punct \cup {"\""} \cup Alphabetic
    /\ ~(ch \in AsciiDigit \/ ch = "-")
    /\ LexFail(InvalidToken(ch, idx))

\* The iterator is exhausted: Ok(tokens), the vector moving to the caller.
LexDone ==
    /\ pc = "tokenize"
    /\ chars >= Len(input)
    /\ lexed' = Ok(tokens)
    /\ tokens' = <<>>
    /\ pc' = "tokenized"
    /\ UNCHANGED <<input, chars, result, dispatched, origin>>
    /\ ParserIdle

----------------------------------------------------------------------------
(* parse_json_str around tokenize                                          *)

\* let tokens = tokenize(input)?  on an Err: the LexError is returned.
StrLexErr ==
    /\ pc = "tokenized"
    /\ lexed.tag = "Err"
    /\ result' = lexed
    /\ pc' = "done"
    /\ UNCHANGED <<input, chars, tokens, lexed, dispatched, origin>>
    /\ ParserIdle

\* ... on an Ok: Parser::new(tokens), and parse_json is entered.
StrNewParser ==
    /\ pc = "tokenized"
    /\ lexed.tag = "Ok"
    /\ parser' = [tokens |-> lexed.v, position |-> 0]
    /\ pc' = "parse"
    /\ UNCHANGED <<input, chars, tokens, lexed, stack, ret, result,
                   dispatched, origin>>

----------------------------------------------------------------------------
(* Parser                                                                  *)

LexerIdle == UNCHANGED <<input, chars, tokens, lexed, dispatched, origin>>

\* current_token(): None past the end.
Cur ==
    IF parser.position < Len(parser.tokens)
    THEN parser.tokens[parser.position + 1]
    ELSE None

\* advance()
Advance == parser' = [parser EXCEPT !.position = @ + 1]

Top == stack[Len(stack)]
Pop == SubSeq(stack, 1, Len(stack) - 1)
SetTop(f) == [stack EXCEPT ![Len(stack)] = f]

ObjectFrame(at, map, key) ==
    [fn |-> "parse_object", at |-> at, map |-> map, key |-> key]
ArrayFrame(at, arr) == [fn |-> "parse_array", at |-> at, arr |-> arr]

\* parse_value is about to be called: by parse_json, by parse_object after a
\* colon, or by parse_array at the head of its loop.
WantValue ==
    /\ pc = "parse"
    /\ ret = None
    /\ IF stack = <<>> THEN TRUE
       ELSE IF Top.at = "value" THEN TRUE
       ELSE Top.fn = "parse_array" /\ Top.at = "first" /\ Cur # Tok("RBracket")

ParserStep == pc' = pc /\ result' = result /\ LexerIdle

\* parse_value on an exhausted sequence.
ValueEnd ==
    /\ WantValue
    /\ Cur = None
    /\ ret' = Err(UnexpectedEndOfTokens)
    /\ UNCHANGED <<parser, stack>>
    /\ ParserStep

\* parse_value on '{': parse_object is entered and consumes the brace.
ValueObject ==
    /\ WantValue
    /\ Cur = Tok("LBrace")
    /\ Advance
    /\ stack' = Append(stack, ObjectFrame("first", EmptyMap, <<>>))
    /\ UNCHANGED ret
    /\ ParserStep

\* parse_value on '[': parse_array is entered and consumes the bracket.
ValueArray ==
    /\ WantValue
    /\ Cur = Tok("LBracket")
    /\ Advance
    /\ stack' = Append(stack, ArrayFrame("first", <<>>))
    /\ UNCHANGED ret
    /\ ParserStep

ValueString ==
    /\ WantValue
    /\ Cur # None /\ Cur.k = "String"
    /\ ret' = Ok(JString(Cur.s))
    /\ Advance
    /\ UNCHANGED stack
    /\ ParserStep

ValueNumber ==
    /\ WantValue
    /\ Cur # None /\ Cur.k = "Number"
    /\ LET number == ParseF64(Cur.s) IN
       IF number.ok
       THEN ret' = Ok(JNumber(number.v)) /\ Advance
       ELSE ret' = Err(InvalidNumber(Cur.s)) /\ UNCHANGED parser
    /\ UNCHANGED stack
    /\ ParserStep

ValueTrue ==
    /\ WantValue
    /\ Cur = Tok("True")
    /\ Advance
    /\ ret' = Ok(JBool(TRUE))
    /\ UNCHANGED stack
    /\ ParserStep

ValueFalse ==
    /\ WantValue
    /\ Cur = Tok("False")
    /\ Advance
    /\ ret' = Ok(JBool(FALSE))
    /\ UNCHANGED stack
    /\ ParserStep

ValueNull ==
    /\ WantValue
    /\ Cur = Tok("Null")
    /\ Advance
    /\ ret' = Ok(JNull)
    /\ UNCHANGED stack
    /\ ParserStep

\* parse_value on '}', ']', ':' or ','.
ValueOther ==
    /\ WantValue
    /\ Cur # None /\ Cur.k \in {"RBrace", "RBracket", "Colon", "Comma"}
    /\ ret' = Err(UnexpectedToken(Cur))
    /\ UNCHANGED <<parser, stack>>
    /\ ParserStep

InFrame(fn) == pc = "parse" /\ stack # <<>> /\ Top.fn = fn

\* A function returns r to its caller.
Return(r) == stack' = Pop /\ ret' = r

\* parse_object: '}' right after '{'.
ObjectEmpty ==
    /\ InFrame("parse_object") /\ Top.at = "first"
    /\ Cur = Tok("RBrace")
    /\ Advance
    /\ Return(Ok(JObject(Top.map)))
    /\ ParserStep

\* parse_object: the key at the head of the loop.
ObjectKey ==
    /\ InFrame("parse_object")
    /\ IF Top.at = "key" THEN TRUE
       ELSE Top.at = "first" /\ Cur # Tok("RBrace")
    /\ IF Cur = None
       THEN Return(Err(UnexpectedEndOfTokens)) /\ UNCHANGED parser
       ELSE IF Cur.k = "String"
       THEN /\ stack' = SetTop(ObjectFrame("colon", Top.map, Cur.s))
            /\ Advance
            /\ UNCHANGED ret
       ELSE Return(Err(UnexpectedToken(Cur))) /\ UNCHANGED parser
    /\ ParserStep

\* Mutant: parse_object consuming the token after the key before looking at
\* it.
ObjectColonEager ==
    /\ pc = "parse" /\ stack # <<>> /\ Top.fn = "parse_object"
    /\ Top.at = "colon"
    /\ parser' = [parser EXCEPT !.position = @ + 1]
    /\ IF Cur = Tok("Colon")
       THEN /\ stack' = [stack EXCEPT ![Len(stack)].at = "value"]
            /\ UNCHANGED ret
       ELSE IF Cur # None
       THEN stack' = Pop /\ ret' = Err(UnexpectedToken(Cur))
       ELSE stack' = Pop /\ ret' = Err(UnexpectedEndOfTokens)
    /\ pc' = pc /\ result' = result
    /\ UNCHANGED <<input, chars, tokens, lexed, dispatched, origin>>

\* parse_object: the colon after the key.
ObjectColon ==
    /\ InFrame("parse_object") /\ Top.at = "colon"
    /\ IF Cur = Tok("Colon")
       THEN /\ Advance
            /\ stack' = SetTop(ObjectFrame("value", Top.map, Top.key))
            /\ UNCHANGED ret
       ELSE IF Cur # None
       THEN Return(Err(UnexpectedToken(Cur))) /\ UNCHANGED parser
       ELSE Return(Err(UnexpectedEndOfTokens)) /\ UNCHANGED parser
    /\ ParserStep

\* parse_object: parse_value returned Ok; the pair is inserted and the
\* token after it must be ',' or '}'.
ObjectInsert ==
    /\ InFrame("parse_object") /\ Top.at = "value"
    /\ ret # None /\ ret.tag = "Ok"
    /\ LET map == MapInsert(Top.map, Top.key, ret.v) IN
       IF Cur = Tok("Comma")
       THEN /\ Advance
            /\ stack' = SetTop(ObjectFrame("key", map, <<>>))
            /\ ret' = None
       ELSE IF Cur = Tok("RBrace")
       THEN Advance /\ Return(Ok(JObject(map)))
       ELSE IF Cur # None
       THEN Return(Err(UnexpectedToken(Cur))) /\ UNCHANGED parser
       ELSE Return(Err(UnexpectedEndOfTokens)) /\ UNCHANGED parser
    /\ ParserStep

\* parse_array: ']' right after '['.
ArrayEmpty ==
    /\ InFrame("parse_array") /\ Top.at = "first"
    /\ ret = None
    /\ Cur = Tok("RBracket")
    /\ Advance
    /\ Return(Ok(JArray(Top.arr)))
    /\ ParserStep

\* Mutant: parse_array going back, after a comma, to the check for ']' that
\* only the head of the array has (a trailing comma is accepted).
ArrayPushTrailing ==
    /\ pc = "parse" /\ stack # <<>> /\ Top.fn = "parse_array"
    /\ ret # None /\ ret.tag = "Ok"
    /\ LET arr == Append(Top.arr, ret.v) IN
       IF Cur = Tok("Comma")
       THEN /\ parser' = [parser EXCEPT !.position = @ + 1]
            /\ stack' = [stack EXCEPT ![Len(stack)] =
                            [fn |-> "parse_array", at |-> "first", arr |-> arr]]
            /\ ret' = None
       ELSE IF Cur = Tok("RBracket")
       THEN /\ parser' = [parser EXCEPT !.position = @ + 1]
            /\ stack' = Pop /\ ret' = Ok(JArray(arr))
       ELSE IF Cur # None
       THEN stack' = Pop /\ ret' = Err(UnexpectedToken(Cur)) /\ UNCHANGED parser
       ELSE stack' = Pop /\ ret' = Err(UnexpectedEndOfTokens) /\ UNCHANGED parser
    /\ pc' = pc /\ result' = result
    /\ UNCHANGED <<input, chars, tokens, lexed, dispatched, origin>>

\* parse_array: parse_value returned Ok; the value is pushed and the token
\* after it must be ',' or ']'.
ArrayPush ==
    /\ InFrame("parse_array")
    /\ ret # None /\ ret.tag = "Ok"
    /\ LET arr == Append(Top.arr, ret.v) IN
       IF Cur = Tok("Comma")
       THEN /\ Advance
            /\ stack' = SetTop(ArrayFrame("value", arr))
            /\ ret' = None
       ELSE IF Cur = Tok("RBracket")
       THEN Advance /\ Return(Ok(JArray(arr)))
       ELSE IF Cur # None
       THEN Return(Err(UnexpectedToken(Cur))) /\ UNCHANGED parser
       ELSE Return(Err(UnexpectedEndOfTokens)) /\ UNCHANGED parser
    /\ ParserStep

\* self.parse_value()? in parse_object and parse_array: an Err goes on up.
Propagate ==
    /\ pc = "parse" /\ stack # <<>>
    /\ ret # None /\ ret.tag = "Err"
    /\ stack' = Pop
    /\ UNCHANGED <<parser, ret>>
    /\ ParserStep

\* Mutant: parse_json without its check for leftover tokens.
ParseJsonReturnUnchecked ==
    /\ pc = "parse" /\ stack = <<>>
    /\ ret # None
    /\ result' = ret
    /\ pc' = "done"
    /\ UNCHANGED <<parser, stack, ret>>
    /\ UNCHANGED <<input, chars, tokens, lexed, dispatched, origin>>

\* parse_json after parse_value()?: the value only if no token is left.
ParseJsonReturn ==
    /\ pc = "parse" /\ stack = <<>>
    /\ ret # None
    /\ result' = IF ret.tag = "Ok" /\ parser.position < Len(parser.tokens)
                 THEN Err(UnexpectedToken(parser.tokens[parser.position + 1]))
                 ELSE ret
    /\ pc' = "done"
    /\ UNCHANGED <<parser, stack, ret>>
    /\ LexerIdle

----------------------------------------------------------------------------
(* The inputs of the model                                                 *)

MaxPieces == 3  \* a scanner text is at most this many pieces
MaxTokens == 4  \* a token sequence given to Parser::new is at most this long
MaxWidth == 2   \* a generated array or object has at most this many members
MaxNest == 1    \* a generated container is wrapped at most this many times
MaxWsLen == 3   \* whitespace is inserted into texts of at most this length

RECURSIVE SeqsUpTo(_, _)
SeqsUpTo(S, n) ==
    IF n = 0 THEN {<<>>}
    ELSE LET shorter == SeqsUpTo(S, n - 1) IN
         shorter \cup {Append(q, x) : q \in shorter, x \in S}

RECURSIVE Flatten(_)
Flatten(qs) == IF qs = <<>> THEN <<>> ELSE Head(qs) \o Flatten(Tail(qs))

\* The scanner's texts: every concatenation of at most MaxPieces pieces.
Pieces ==
    { <<" ">>, <<"]">>, <<"\"">>, <<"\\">>, <<"n">>, <<"t", "r", "u">>,
      <<"n", "u", "l">>, <<"l">>, <<"e">>, <<"1">>, <<"-">>, <<".">>,
      <<"_">> }

Texts == {Flatten(ps) : ps \in SeqsUpTo(Pieces, MaxPieces)}

\* The parser's token sequences: every sequence of at most MaxTokens tokens.
TokenAlphabet ==
    { Tok("LBrace"), Tok("RBrace"), Tok("LBracket"), Tok("RBracket"),
      Tok("Colon"), Tok("Comma"), Tok("Null"),
      StringTok(<<"a">>), NumberTok(<<"1">>), NumberTok(<<"-">>) }

TokenSeqs == SeqsUpTo(TokenAlphabet, MaxTokens)

\* Documents: syntax trees, a JsonValue but for an object, which is the
\* sequence of its <<key, member>> pairs as written (a key may repeat).
DObject(pairs) == [t |-> "Object", v |-> pairs]

One == JNumber(<<1, 0>>)
Two == JNumber(<<2, 0>>)

Leaves == {JNull, One, Two}

Keys == {<<"a">>, <<"b">>}

Scalars ==
    {JNull, JBool(TRUE), JBool(FALSE)}
    \cup {JNumber(n) : n \in { <<0, 0>>, <<-1, 0>>, <<12, 0>>, <<5, -1>>,
                               <<1, 1>>, <<1, 21>>, <<15, -8>> }}
    \cup {JString(c) : c \in { <<>>, <<"a">>, <<"\"">>, <<"\\">>, <<"\n">>,
                               <<"\t">>, <<"\r">>, <<"\f">>,
                               <<"a", "\n", "b">> }}

Flat ==
    {JArray(q) : q \in SeqsUpTo(Leaves, MaxWidth)}
    \cup {DObject(q) : q \in SeqsUpTo(Keys \X Leaves, MaxWidth)}

Wraps(c) ==
    { JArray(<<c>>), JArray(<<One, Two, c>>), DObject(<< <<(<<"a">>), c>> >>),
      DObject(<< <<(<<"a">>), c>>, <<(<<"b">>), Two>> >>) }

RECURSIVE Nested(_)
Nested(d) ==
    IF d = 0 THEN Flat
    ELSE LET inner == Nested(d - 1) IN
         inner \cup UNION {Wraps(c) : c \in inner}

Docs == Scalars \cup Nested(MaxNest)

\* The text of a document: RFC 8785 (JSON canonicalization) for the
\* scalars, the members in the order written, no whitespace.
DigitChar(d) == CHOOSE c \in AsciiDigit : DigitVal(c) = d

RECURSIVE DigitsOf(_)
DigitsOf(n) ==
    IF n < 10 THEN <<DigitChar(n)>>
    ELSE Append(DigitsOf(n \div 10), DigitChar(n % 10))

Zeros(n) == [i \in 1..n |-> "0"]

\* ECMAScript Number::toString of m * 10^e (m not a multiple of 10).
NumberText(n) ==
    LET m == n[1]
        abs == IF m < 0 THEN -m ELSE m
        ds == DigitsOf(abs)
        k == Len(ds)
        pt == k + n[2]
        ex == pt - 1
        body ==
            IF k <= pt /\ pt <= 21 THEN ds \o Zeros(pt - k)
            ELSE IF 0 < pt /\ pt <= 21
            THEN SubSeq(ds, 1, pt) \o <<".">> \o SubSeq(ds, pt + 1, k)
            ELSE IF -6 < pt /\ pt <= 0
            THEN <<"0", ".">> \o Zeros(-pt) \o ds
            ELSE (IF k = 1 THEN ds
                  ELSE <<ds[1], ".">> \o SubSeq(ds, 2, k))
                 \o <<"e", IF ex < 0 THEN "-" ELSE "+">>
                 \o DigitsOf(IF ex < 0 THEN -ex ELSE ex)
    IN  IF m < 0 THEN <<"-">> \o body ELSE body

EscapeChar(c) ==
    CASE c = "\"" -> <<"\\", "\"">>
      [] c = "\\" -> <<"\\", "\\">>
      [] c = "\n" -> <<"\\", "n">>
      [] c = "\t" -> <<"\\", "t">>
      [] c = "\r" -> <<"\\", "r">>
      [] c = "\f" -> <<"\\", "f">>
      [] OTHER -> <<c>>

StringText(str) ==
    <<"\"">> \o Flatten([i \in 1..Len(str) |-> EscapeChar(str[i])]) \o <<"\"">>

RECURSIVE Join(_)
Join(parts) ==
    IF parts = <<>> THEN <<>>
    ELSE IF Len(parts) = 1 THEN parts[1]
    ELSE parts[1] \o <<",">> \o Join(Tail(parts))

RECURSIVE Render(_)
Render(d) ==
    CASE d.t = "Null" -> <<"n", "u", "l", "l">>
      [] d.t = "Bool" -> IF d.v THEN <<"t", "r", "u", "e">>
                         ELSE <<"f", "a", "l", "s", "e">>
      [] d.t = "Number" -> NumberText(d.v)
      [] d.t = "String" -> StringText(d.v)
      [] d.t = "Array" ->
            <<"[">> \o Join([i \in 1..Len(d.v) |-> Render(d.v[i])]) \o <<"]">>
      [] d.t = "Object" ->
            <<"{">>
            \o Join([i \in 1..Len(d.v) |->
                        StringText(d.v[i][1]) \o <<":">> \o Render(d.v[i][2])])
            \o <<"}">>

----------------------------------------------------------------------------
(* The specification                                                       *)

Fresh ==
    /\ chars = 0
    /\ tokens = <<>>
    /\ lexed = None
    /\ stack = <<>>
    /\ ret = None
    /\ result = None
    /\ dispatched = {}

\* parse_json_str(text) for a scanner text.
InitText ==
    /\ input \in Texts
    /\ origin = [kind |-> "text"]
    /\ pc = "tokenize"
    /\ parser = None
    /\ Fresh

\* parse_json_str(text) for the text of a document.
InitDoc ==
    /\ \E d \in Docs : input = Render(d) /\ origin = [kind |-> "doc", doc |-> d]
    /\ pc = "tokenize"
    /\ parser = None
    /\ Fresh

\* Parser::new(tokens).parse_json() for a token sequence.
InitTokens ==
    /\ input = <<>>
    /\ origin = [kind |-> "tokens"]
    /\ pc = "parse"
    /\ \E ts \in TokenSeqs : parser = [tokens |-> ts, position |-> 0]
    /\ Fresh

\* parse_json_str(text) for the text of a flat document with one character
\* deleted, or with one structural character inserted.
EditChars == {",", ":", "}"}

InsertAt(text, p, cs) ==
    SubSeq(text, 1, p) \o cs \o SubSeq(text, p + 1, Len(text))
RemoveAt(text, p) ==
    SubSeq(text, 1, p) \o SubSeq(text, p + 2, Len(text))

Edits(text) ==
    {RemoveAt(text, p) : p \in 0..(Len(text) - 1)}
    \cup {InsertAt(text, p, <<c>>) : p \in 0..Len(text), c \in EditChars}

InitEdited ==
    /\ \E d \in Flat : input \in Edits(Render(d))
    /\ origin = [kind |-> "edited"]
    /\ pc = "tokenize"
    /\ parser = None
    /\ Fresh

Init == InitText \/ InitDoc \/ InitEdited \/ InitTokens

\* The whitespace the caller inserts: space, tab, newline, carriage return,
\* and two of them in a row.
Gaps == { <<" ">>, <<"\t">>, <<"\n">>, <<"\r">>, <<"\r", "\n">> }

\* The caller calls parse_json_str again, on the text with whitespace
\* inserted at index p, or with the whitespace character at index p
\* removed; origin keeps the first call's text, result and dispatch indices.
Again(text, op, p, n) ==
    /\ input' = text
    /\ origin' = [kind |-> "again", op |-> op, at |-> p, len |-> n,
                  text |-> input, result |-> result, lexed |-> lexed,
                  dispatched |-> dispatched]
    /\ pc' = "tokenize"
    /\ parser' = None
    /\ chars' = 0
    /\ tokens' = <<>>
    /\ lexed' = None
    /\ stack' = <<>>
    /\ ret' = None
    /\ result' = None
    /\ dispatched' = {}

Reparse ==
    /\ pc = "done"
    /\ origin.kind \in {"text", "doc"}
    /\ \/ /\ Len(input) <= MaxWsLen
          /\ \E p \in 0..Len(input), gap \in Gaps :
                Again(InsertAt(input, p, gap), "insert", p, Len(gap))
       \/ /\ Len(input) <= MaxWsLen + 1
          /\ \E p \in 0..(Len(input) - 1) :
                /\ input[p + 1] \in {" ", "\t", "\n", "\r"}
                /\ Again(RemoveAt(input, p), "remove", p, 1)

Next ==
    \/ LexWhitespace \/ LexPunct \/ LexString \/ LexIdent \/ LexNumber
    \/ LexInvalid \/ LexDone
    \/ StrLexErr \/ StrNewParser
    \/ ValueEnd \/ ValueObject \/ ValueArray \/ ValueString \/ ValueNumber
    \/ ValueTrue \/ ValueFalse \/ ValueNull \/ ValueOther
    \/ ObjectEmpty \/ ObjectKey \/ ObjectColon \/ ObjectInsert
    \/ ArrayEmpty \/ ArrayPush \/ Propagate \/ ParseJsonReturn
    \/ Reparse

Spec == Init /\ [][Next]_vars

----------------------------------------------------------------------------
(* Properties                                                              *)

Parsed == pc = "done" /\ parser # None
Leftover == parser.position < Len(parser.tokens)

\* C1: exactly one top-level value.  When parse_value succeeds from cursor 0
\* and leaves the cursor below the length of the token sequence, parse_json
\* fails with UnexpectedToken on the token at the cursor, the first leftover
\* token; parse_json returns Ok only with the cursor at the length.
C1_ExactlyOneTopLevelValue ==
    Parsed =>
        /\ ret.tag = "Ok" /\ Leftover =>
                result = Err(UnexpectedToken(parser.tokens[parser.position + 1]))
        /\ result.tag = "Ok" => parser.position = Len(parser.tokens)

\* "{} {}": the second value's '{' is reported.
C1_Witness ==
    /\ Parsed
    /\ parser.tokens = <<Tok("LBrace"), Tok("RBrace"), Tok("LBrace"), Tok("RBrace")>>
    /\ ret = Ok(JObject(EmptyMap))
    /\ parser.position = 2
    /\ result = Err(UnexpectedToken(Tok("LBrace")))

\* C10: the cursor invariant.  The cursor is always within 0..tokens.len();
\* a step leaves it or moves it forward by exactly one, and moves it only
\* when a token exists at it; when parse_json returns Ok it is at
\* tokens.len().
CursorInRange ==
    parser # None =>
        /\ 0 <= parser.position /\ parser.position <= Len(parser.tokens)
        /\ pc = "done" /\ result.tag = "Ok" =>
                parser.position = Len(parser.tokens)

CursorStep ==
    parser # None /\ parser' # None =>
        /\ parser'.tokens = parser.tokens
        /\ \/ parser'.position = parser.position
           \/ /\ parser'.position = parser.position + 1
              /\ parser.position < Len(parser.tokens)

C10_CursorInvariant == [](CursorInRange) /\ [][CursorStep]_vars

\* '{ "a"' with nothing after the key: the cursor stops at the end, 2.
C10_Witness ==
    /\ Parsed
    /\ parser.tokens = <<Tok("LBrace"), StringTok(<<"a">>)>>
    /\ parser.position = 2
    /\ result = Err(UnexpectedEndOfTokens)

\* The container grammar, as a grammar:
\*   value  ::= scalar | '[' ']' | '[' value (',' value)* ']'
\*            | '{' '}' | '{' String ':' value (',' String ':' value)* '}'
ScalarToken(t) ==
    \/ t.k \in {"String", "True", "False", "Null"}
    \/ t.k = "Number" /\ ParseF64(t.s).ok

RECURSIVE IsValue(_), IsElements(_), IsMembers(_)
IsValue(s) ==
    LET n == Len(s) IN
    \/ n = 1 /\ ScalarToken(s[1])
    \/ /\ n >= 2 /\ s[1] = Tok("LBracket") /\ s[n] = Tok("RBracket")
       /\ (n = 2 \/ IsElements(SubSeq(s, 2, n - 1)))
    \/ /\ n >= 2 /\ s[1] = Tok("LBrace") /\ s[n] = Tok("RBrace")
       /\ (n = 2 \/ IsMembers(SubSeq(s, 2, n - 1)))

IsElements(s) ==
    LET n == Len(s) IN
    \/ IsValue(s)
    \/ \E k \in 2..(n - 1) :
          /\ s[k] = Tok("Comma")
          /\ IsValue(SubSeq(s, 1, k - 1))
          /\ IsElements(SubSeq(s, k + 1, n))

IsMembers(s) ==
    LET n == Len(s) IN
    /\ n >= 3 /\ s[1].k = "String" /\ s[2] = Tok("Colon")
    /\ \/ IsValue(SubSeq(s, 3, n))
       \/ \E k \in 4..(n - 1) :
             /\ s[k] = Tok("Comma")
             /\ IsValue(SubSeq(s, 3, k - 1))
             /\ IsMembers(SubSeq(s, k + 1, n))

Unexpected == IF Cur = None THEN UnexpectedEndOfTokens ELSE UnexpectedToken(Cur)

InObject(at) == pc = "parse" /\ stack # <<>> /\ Top.fn = "parse_object" /\ Top.at = at
InArray(at) == pc = "parse" /\ stack # <<>> /\ Top.fn = "parse_array" /\ Top.at = at

\* The parser is where an object's key must be: after '{' unless '}' follows
\* (the empty object), and after a ',' of the object.
KeyPosition == InObject("key") \/ (InObject("first") /\ Cur # Tok("RBrace"))

\* parse_value has returned a member or an element; ',' or the closer must
\* follow.
AfterMember == InObject("value") /\ ret.tag = "Ok"
AfterElement ==
    (InArray("first") \/ InArray("value")) /\ ret.tag = "Ok"

\* The step fails with e without moving the cursor.
FailsWith(e) == ret' = Err(e) /\ parser' = parser

C4_Defects ==
    /\ KeyPosition /\ (Cur = None \/ Cur.k # "String") => FailsWith(Unexpected)
    /\ InObject("colon") /\ Cur # Tok("Colon") => FailsWith(Unexpected)
    /\ AfterMember /\ Cur \notin {Tok("Comma"), Tok("RBrace")} =>
            FailsWith(Unexpected)
    /\ AfterElement /\ Cur \notin {Tok("Comma"), Tok("RBracket")} =>
            FailsWith(Unexpected)
    /\ InArray("value") /\ ret = None /\ Cur \in {Tok("RBracket"), Tok("RBrace")} =>
            FailsWith(Unexpected)
    \* and the failure is what parse_json returns
    /\ pc = "parse" /\ ret.tag = "Err" =>
            ret' = ret /\ (pc' = "done" => result' = ret)

C4_Accepted ==
    Parsed =>
        /\ result.tag = "Ok" <=> IsValue(parser.tokens)
        /\ parser.tokens = <<Tok("LBrace"), Tok("RBrace")>> =>
                result = Ok(JObject(EmptyMap))
        /\ parser.tokens = <<Tok("LBracket"), Tok("RBracket")>> =>
                result = Ok(JArray(<<>>))

\* C4: the parser accepts exactly the container grammar.  A token that is
\* not a String where a key must be, a missing ':' after a key, a missing
\* ',' after a member or an element, and a ',' followed by the closer each
\* fail with UnexpectedToken on that token, or UnexpectedEndOfTokens when no
\* token is left; "{}" is the empty Object and "[]" the empty Array.
C4_ContainerGrammar == [](C4_Accepted) /\ [][C4_Defects]_vars

\* "[1,]": the ']' after the comma is reported.
C4_Witness ==
    /\ Parsed
    /\ parser.tokens = <<Tok("LBracket"), NumberTok(<<"1">>), Tok("Comma"),
                         Tok("RBracket")>>
    /\ parser.position = 3
    /\ result = Err(UnexpectedToken(Tok("RBracket")))

\* The value a document denotes: an object's key maps to the member of its
\* last occurrence.
LastIndex(pairs, k) ==
    CHOOSE i \in 1..Len(pairs) :
        pairs[i][1] = k /\ \A j \in (i + 1)..Len(pairs) : pairs[j][1] # k

KeysOf(pairs) == {pairs[i][1] : i \in 1..Len(pairs)}

RECURSIVE Denote(_)
Denote(d) ==
    CASE d.t = "Array" -> JArray([i \in 1..Len(d.v) |-> Denote(d.v[i])])
      [] d.t = "Object" ->
            JObject([k \in KeysOf(d.v) |-> Denote(d.v[LastIndex(d.v, k)][2])])
      [] OTHER -> d

RECURSIVE RepeatsKey(_)
RepeatsKey(d) ==
    CASE d.t = "Array" -> \E i \in 1..Len(d.v) : RepeatsKey(d.v[i])
      [] d.t = "Object" ->
            \/ Cardinality(KeysOf(d.v)) < Len(d.v)
            \/ \E i \in 1..Len(d.v) : RepeatsKey(d.v[i][2])
      [] OTHER -> FALSE

\* The escapes the scanner decodes: \" \\ \n \t \r.
Decoded(str) ==
    \A i \in 1..Len(str) :
        Len(EscapeChar(str[i])) = 2 =>
            EscapeChar(str[i])[2] \in {"\"", "\\", "n", "t", "r"}

RECURSIVE AllDecoded(_)
AllDecoded(d) ==
    CASE d.t = "String" -> Decoded(d.v)
      [] d.t = "Array" -> \A i \in 1..Len(d.v) : AllDecoded(d.v[i])
      [] d.t = "Object" ->
            \A i \in 1..Len(d.v) : Decoded(d.v[i][1]) /\ AllDecoded(d.v[i][2])
      [] OTHER -> TRUE

\* parse_json_str has returned for the text of a JSON value.
ValueDone == pc = "done" /\ origin.kind = "doc" /\ ~RepeatsKey(origin.doc)

\* C3 as stated: for every valid JSON value v, parse_json_str of its
\* canonical text is Ok(v).
C3_RoundTripEveryValue == ValueDone => result = Ok(Denote(origin.doc))

\* C3, amended: ... for every valid JSON value v whose strings and keys
\* hold no control character other than newline, tab and carriage return
\* (so that its canonical text uses no escape but \" \\ \n \t \r).
C3_RoundTrip ==
    ValueDone /\ AllDecoded(origin.doc) => result = Ok(Denote(origin.doc))

\* "a\tb"-like: a string with an escape comes back decoded.
C3_Witness ==
    /\ ValueDone
    /\ origin.doc = JString(<<"\t">>)
    /\ input = <<"\"", "\\", "t", "\"">>
    /\ result = Ok(JString(<<"\t">>))

\* C8: duplicate keys.  For every object whose text repeats a key, parse
\* succeeds and the Object has exactly one entry for the key, mapped to the
\* value of its last occurrence.
C8_DuplicateKeys ==
    pc = "done" /\ origin.kind = "doc" /\ RepeatsKey(origin.doc) =>
        /\ result = Ok(Denote(origin.doc))
        /\ origin.doc.t = "Object" =>
              LET pairs == origin.doc.v
                  map == result.v.v
              IN  /\ DOMAIN map = KeysOf(pairs)
                  /\ \A i \in 1..Len(pairs) :
                        map[pairs[i][1]] =
                            Denote(pairs[LastIndex(pairs, pairs[i][1])][2])

\* {"a":1,"a":2}: one entry, "a" mapped to 2.
C8_Witness ==
    /\ pc = "done"
    /\ input = <<"{", "\"", "a", "\"", ":", "1", ",", "\"", "a", "\"", ":", "2", "}">>
    /\ result.tag = "Ok"
    /\ DOMAIN result.v.v = {<<"a">>}
    /\ result.v.v[<<"a">>] = Two

\* The length of the maximal run of text that starts at index from (0-based)
\* and continues with characters of S.
RunLen(text, from, S) ==
    CHOOSE n \in 1..(Len(text) - from) :
        /\ \A j \in 2..n : text[from + j] \in S
        /\ from + n = Len(text) \/ text[from + n + 1] \notin S

Run(text, from, S) == SubSeq(text, from + 1, from + RunLen(text, from, S))

Digits == {"0", "1", "2", "3", "4", "5", "6", "7", "8", "9"}
NumberRun == Digits \cup {".", "e", "E", "+", "-"}

Scanned == pc \in {"tokenized", "parse", "done"} /\ origin.kind # "tokens"

\* The scanner dispatches on a digit or '-': one Number token, the maximal
\* run verbatim, and no error.
C5_Scan ==
    AtChar /\ ch \in Digits \cup {"-"} =>
        /\ tokens' = Append(tokens, NumberTok(Run(input, chars, NumberRun)))
        /\ chars' = chars + RunLen(input, chars, NumberRun)
        /\ pc' = "tokenize" /\ lexed' = None

\* parse_value on a Number token whose text is no double.
C5_Parse ==
    WantValue /\ Cur # None /\ Cur.k = "Number" /\ ~ParseF64(Cur.s).ok =>
        ret' = Err(InvalidNumber(Cur.s)) /\ parser' = parser

\* A text that is one such run from end to end.
C5_WholeText ==
    /\ Scanned
    /\ input # <<>> /\ input[1] \in Digits \cup {"-"}
    /\ \A j \in 2..Len(input) : input[j] \in NumberRun
    => /\ lexed = Ok(<<NumberTok(input)>>)
       /\ pc = "done" /\ ~ParseF64(input).ok =>
             result = Err(InvalidNumber(input)) /\ parser.position = 0

\* C5: two-stage number validation.  A maximal run that starts with a digit
\* or '-' and continues with digits, '.', 'e', 'E', '+', '-' is scanned as
\* exactly one Number token holding the run verbatim, never an error and
\* never split; when the text is no valid double, parse_value fails with
\* InvalidNumber carrying that text and does not move the cursor.
C5_TwoStageNumber == [](C5_WholeText) /\ [][C5_Scan /\ C5_Parse]_vars

\* "1-1": scanned whole, rejected by the parser.
C5_Witness ==
    /\ pc = "done"
    /\ input = <<"1", "-", "1">>
    /\ lexed = Ok(<<NumberTok(<<"1", "-", "1">>)>>)
    /\ result = Err(InvalidNumber(<<"1", "-", "1">>))
    /\ parser.position = 0

\* The backslashes of text that end at position j (1-based), none before lo.
RECURSIVE BackslashesTo(_, _, _)
BackslashesTo(text, j, lo) ==
    IF j >= lo /\ text[j] = "\\" THEN 1 + BackslashesTo(text, j - 1, lo) ELSE 0

\* No unescaped '"' follows the '"' at position open (1-based).
Unclosed(text, open) ==
    \A j \in (open + 1)..Len(text) :
        text[j] = "\"" => BackslashesTo(text, j - 1, open + 1) % 2 = 1

C6_Scan ==
    AtChar /\ ch = "\"" /\ Unclosed(input, chars + 1) =>
        /\ lexed' = Err(UnterminatedString(chars))
        /\ tokens' = <<>>
        /\ pc' = "tokenized"

C6_Returned ==
    /\ lexed.tag = "Err" => tokens = <<>> /\ parser = None
    /\ pc = "done" /\ lexed.tag = "Err" => result = lexed

\* C6: unterminated string.  When a '"' opens a string at index i and the
\* input ends before an unescaped closing '"', also right after a
\* backslash, tokenize fails with UnterminatedString(i), i the index of the
\* opening quote, and returns no tokens.
C6_UnterminatedString == [](C6_Returned) /\ [][C6_Scan]_vars

\* ' "\': the string opens at index 1 and the input ends, at 3, after a
\* backslash.
C6_Witness ==
    /\ pc = "done"
    /\ input = <<" ", "\"", "\\">>
    /\ result = Err(UnterminatedString(1))
    /\ tokens = <<>>

LexErrors == {"InvalidToken", "UnterminatedString"}
IsLexError(r) == r.tag = "Err" /\ r.e.e \in LexErrors
IsParseError(r) == r.tag = "Err" /\ r.e.e \notin LexErrors

\* C7: pipeline ordering.  parse_json_str tokenizes the whole input before
\* any parsing: while tokenize runs there is no parser; the parser's tokens
\* are those of a scan that reached the end of the text; when tokenize
\* fails the result is its LexError, never a ParseError; a ParseError is
\* returned only when tokenize succeeded.
C7_PipelineOrdering ==
    /\ pc \in {"tokenize", "tokenized"} =>
            parser = None /\ stack = <<>> /\ ret = None
    /\ parser # None /\ origin.kind # "tokens" =>
            lexed.tag = "Ok" /\ chars = Len(input) /\ parser.tokens = lexed.v
    /\ pc = "done" /\ lexed.tag = "Err" =>
            result = lexed /\ IsLexError(result) /\ parser = None
    /\ pc = "done" /\ IsParseError(result) /\ origin.kind # "tokens" =>
            lexed.tag = "Ok"

\* "]_": the parser would reject ']', the scanner's fault at '_' is returned.
C7_Witness ==
    /\ pc = "done"
    /\ input = <<"]", "_">>
    /\ result = Err(InvalidToken("_", 1))
    /\ parser = None

KeywordOf(run) ==
    CASE run = <<"t", "r", "u", "e">> -> Tok("True")
      [] run = <<"f", "a", "l", "s", "e">> -> Tok("False")
      [] run = <<"n", "u", "l", "l">> -> Tok("Null")

Keywords ==
    { <<"t", "r", "u", "e">>, <<"f", "a", "l", "s", "e">>, <<"n", "u", "l", "l">> }

C9_Scan ==
    AtChar /\ ch \in Alphabetic =>
        LET run == Run(input, chars, Alphabetic) IN
        IF run \in Keywords
        THEN /\ tokens' = Append(tokens, KeywordOf(run))
             /\ chars' = chars + Len(run)
             /\ pc' = "tokenize" /\ lexed' = None
        ELSE lexed' = Err(InvalidToken(ch, chars)) /\ pc' = "tokenized"

C9_Examples ==
    Scanned =>
        /\ input = <<"n", "u", "l", "l", "1">> =>
                lexed = Ok(<<Tok("Null"), NumberTok(<<"1">>)>>)
        /\ input = <<"t", "r", "u", "e", "e">> => lexed = Err(InvalidToken("t", 0))
        /\ input = <<"n", "u", "l", "1">> => lexed = Err(InvalidToken("n", 0))
        /\ input = <<"n", "u", "l", "l", "_">> => lexed = Err(InvalidToken("_", 4))

\* C9: identifier scanning.  On an alphabetic character at index i the
\* scanner takes the maximal run of alphabetic characters and nothing else;
\* it emits True, False or Null exactly when the run is "true", "false" or
\* "null", and fails otherwise with InvalidToken(first character, i).  The
\* digit or underscore that ends the run is dispatched afresh: "null1" is
\* [Null, Number("1")], "truee" and "nul1" fail with InvalidToken at 0.
C9_IdentifierScanning == [](C9_Examples) /\ [][C9_Scan]_vars

C9_Witness ==
    /\ pc = "done"
    /\ input = <<"n", "u", "l", "l", "1">>
    /\ lexed = Ok(<<Tok("Null"), NumberTok(<<"1">>)>>)
    /\ result = Err(UnexpectedToken(NumberTok(<<"1">>)))

\* Index p of text is a token boundary: the scanner's outer loop dispatched
\* on it, or it is the end of a text that tokenizes.
Boundary(text, disp, lx, p) == p \in disp \/ (lx.tag = "Ok" /\ p = Len(text))

\* r for a text with n more characters before index p: the index a
\* LexError at or after p carries is n higher.
Shifted(r, p, n) ==
    IF IsLexError(r) /\ r.e.idx >= p
    THEN Err([r.e EXCEPT !.idx = @ + n])
    ELSE r

SecondCall == pc = "done" /\ origin.kind = "again"

\* r without the character index a LexError carries.
Unindexed(r) == IF IsLexError(r) THEN Err([r.e EXCEPT !.idx = 0]) ELSE r

\* C2 as stated: inserting whitespace between tokens, or removing it from
\* between tokens, does not change the result of parse_json_str: the same
\* Value, or the same error (read here as the same error but for the
\* character index it carries, which cannot but move with the text).
C2_WhitespaceNeverMatters ==
    SecondCall =>
        /\ origin.op = "insert"
           /\ Boundary(origin.text, origin.dispatched, origin.lexed, origin.at)
           => Unindexed(result) = Unindexed(origin.result)
        /\ origin.op = "remove" /\ origin.at \in origin.dispatched
           => Unindexed(result) = Unindexed(origin.result)

\* C2, amended: inserting whitespace at a token boundary does not change
\* the result of parse_json_str, but for the index of a LexError at or after
\* it, which moves with the text; removing whitespace does not change it
\* either (but for that index) when the place is still a token boundary
\* afterwards, which it is not when two runs join ("1 2" -> "12").
C2_WhitespaceAtBoundaries ==
    SecondCall =>
        /\ origin.op = "insert"
           /\ Boundary(origin.text, origin.dispatched, origin.lexed, origin.at)
           => result = Shifted(origin.result, origin.at, origin.len)
        /\ origin.op = "remove" /\ Boundary(input, dispatched, lexed, origin.at)
           => origin.result = Shifted(result, origin.at, origin.len)

\* "1]" and "1\r\n]": the same tokens, the same UnexpectedToken(RBracket).
C2_Witness ==
    /\ SecondCall
    /\ origin.op = "insert" /\ origin.at = 1
    /\ origin.text = <<"1", "]">>
    /\ input = <<"1", "\r", "\n", "]">>
    /\ result = Err(UnexpectedToken(Tok("RBracket")))
    /\ origin.result = result

====
